---- MODULE Spec2Model ----
(***************************************************************************)
(* A model of py2uml: the generic directed graph, the package tree, the    *)
(* class-model extraction and the dependency-graph builder.                *)
(*                                                                         *)
(* Strings whose characters the program inspects (identifiers whose        *)
(* visibility is inferred, dotted import paths, file paths) are sequences  *)
(* of one-character strings, so that starts_with, ends_with, split and     *)
(* join are computed character by character.  Identifiers the program only *)
(* compares for equality (decorator names, base-class names) are strings.  *)
(***************************************************************************)
EXTENDS Integers, Sequences, FiniteSets, TLC

VARIABLES
    graph,          \* Graph<T>: [node_to_id, id_to_node, edges]
    call,           \* the last Graph method called: [op, a, b]
    result,         \* what that call returned: [ok, msg, val]
    edge_log,       \* the caller's successful add_edge calls, in order
    name_in,        \* the identifier handed to extract_visibility
    visibility_out, \* what extract_visibility returned for it
    class_def,      \* the StmtClassDef handed to generate_model
    class_model,    \* the ClassModel generate_model built from it
    mode,           \* Args.diagram_type of the run
    dirs,           \* the directories under the project root (component lists)
    existing,       \* the .py files on the file system (path strings)
    files,          \* discover_files' result: the .py files, in discovery order
    next_file,      \* the position of the loop over files
    file_text,      \* the text read so far, per file
    models,         \* generate_models' output so far
    tree,           \* the package tree built by generate_plantuml
    status,         \* "idle", "running", "built", "done" or "panicked"
    import_in,      \* the dotted import handed to extract_module_name_from_import
    canonical_out,  \* what it returned, once per call
    inserted        \* the paths handed to insert so far, in order

vars == <<graph, call, result, edge_log, name_in, visibility_out, class_def, class_model,
          mode, dirs, existing, files, next_file, file_text, models, tree, status,
          import_in, canonical_out, inserted>>

graphVars == <<graph, call, result, edge_log>>
visVars == <<name_in, visibility_out>>
classVars == <<class_def, class_model>>
runVars == <<mode, dirs, existing, files, next_file, file_text, models, tree, status>>
unitVars == <<import_in, canonical_out, inserted>>

----------------------------------------------------------------------------
(* Bounds *)

MaxEdges == 3
MaxNameLen == 6
MaxBases == 2
MaxMethods == 2
MaxFiles == 2
MaxStmts == 2
MaxParams == 2
MaxSegments == 3
MaxInserts == 3

----------------------------------------------------------------------------
(* Sequence and string helpers *)

Range(s) == {s[i] : i \in 1..Len(s)}

SeqsUpTo(S, n) == UNION {[1..k -> S] : k \in 0..n}

\* str::starts_with
StartsWith(s, p) == Len(s) >= Len(p) /\ SubSeq(s, 1, Len(p)) = p

\* str::ends_with
EndsWith(s, p) == Len(s) >= Len(p) /\ SubSeq(s, Len(s) - Len(p) + 1, Len(s)) = p

RECURSIVE SplitFrom(_, _, _)
\* the pieces of s[i..] between occurrences of the character sep; cur is the
\* piece being read
SplitFrom(s, sep, cur) ==
    IF s = <<>> THEN <<cur>>
    ELSE IF Head(s) = sep THEN <<cur>> \o SplitFrom(Tail(s), sep, <<>>)
    ELSE SplitFrom(Tail(s), sep, Append(cur, Head(s)))

\* str::split on a one-character separator: "" splits into one empty piece
Split(s, sep) == SplitFrom(s, sep, <<>>)

RECURSIVE Join(_, _)
\* [String]::join
Join(parts, sep) ==
    IF parts = <<>> THEN <<>>
    ELSE IF Len(parts) = 1 THEN parts[1]
    ELSE parts[1] \o <<sep>> \o Join(Tail(parts), sep)

----------------------------------------------------------------------------
(* utils/graph.rs *)

\* Result<_, &str>
Ok(msg, val) == [ok |-> TRUE, msg |-> msg, val |-> val]
Err(msg) == [ok |-> FALSE, msg |-> msg, val |-> <<>>]

\* Graph::new
NewGraph == [node_to_id |-> <<>>, id_to_node |-> <<>>, edges |-> <<>>]

\* Graph::is_node_in_graph
is_node_in_graph(g, node) == node \in DOMAIN g.node_to_id

\* a faulty add_node: inserts without looking for an equal node
add_node_overwrite(g, node) ==
    LET current_index == Cardinality(DOMAIN g.node_to_id)
    IN  [g |-> [g EXCEPT !.node_to_id =
                            (node :> current_index) @@ g.node_to_id,
                         !.id_to_node =
                            (current_index :> node) @@ g.id_to_node],
         res |-> Ok("Node added succesfully!", <<>>)]

\* Graph::add_node: the new graph and the call's result (the index is
\* node_to_id.len() as u32; the node counts here stay far below 2^32)
add_node(g, node) ==
    IF ~is_node_in_graph(g, node)
    THEN LET current_index == Cardinality(DOMAIN g.node_to_id)
         IN  [g |-> [g EXCEPT !.node_to_id =
                                 (node :> current_index) @@ g.node_to_id,
                              !.id_to_node =
                                 (current_index :> node) @@ g.id_to_node],
              res |-> Ok("Node added succesfully!", <<>>)]
    ELSE [g |-> g, res |-> Err("Node already in graph.")]

\* Graph::does_edge_exist
does_edge_exist(g, start, end) ==
    IF ~is_node_in_graph(g, start) \/ ~is_node_in_graph(g, end) THEN FALSE
    ELSE LET start_id == g.node_to_id[start]
             end_id == g.node_to_id[end]
         IN  IF start_id \notin DOMAIN g.edges THEN FALSE
             ELSE end_id \in Range(g.edges[start_id])

\* a faulty add_edge: pushes without looking for the edge
add_edge_no_dedup(g, start, end) ==
    IF ~is_node_in_graph(g, start) THEN [g |-> g, res |-> Err("Start not in graph")]
    ELSE IF ~is_node_in_graph(g, end) THEN [g |-> g, res |-> Err("End not in graph")]
    ELSE LET start_id == g.node_to_id[start]
             end_id == g.node_to_id[end]
         IN  [g |-> [g EXCEPT !.edges =
                        IF start_id \in DOMAIN g.edges
                        THEN [g.edges EXCEPT ![start_id] = Append(@, end_id)]
                        ELSE (start_id :> <<end_id>>) @@ g.edges],
              res |-> Ok("Edge added successfully", <<>>)]

\* Graph::add_edge: the new graph and the call's result
add_edge(g, start, end) ==
    IF ~is_node_in_graph(g, start) THEN [g |-> g, res |-> Err("Start not in graph")]
    ELSE IF ~is_node_in_graph(g, end) THEN [g |-> g, res |-> Err("End not in graph")]
    ELSE IF does_edge_exist(g, start, end)
    THEN [g |-> g, res |-> Err("Edge already exists")]
    ELSE LET start_id == g.node_to_id[start]
             end_id == g.node_to_id[end]
         IN  [g |-> [g EXCEPT !.edges =
                        IF start_id \in DOMAIN g.edges
                        THEN [g.edges EXCEPT ![start_id] = Append(@, end_id)]
                        ELSE (start_id :> <<end_id>>) @@ g.edges],
              res |-> Ok("Edge added successfully", <<>>)]

\* a faulty get_edges: answers with the ids' nodes in reverse
get_edges_reversed(g, node) ==
    IF ~is_node_in_graph(g, node) THEN Err("Node not in graph")
    ELSE LET node_id == g.node_to_id[node]
         IN  IF node_id \in DOMAIN g.edges
             THEN LET e == g.edges[node_id]
                  IN  Ok("", [i \in 1..Len(e) |-> g.id_to_node[e[Len(e) + 1 - i]]])
             ELSE Err("No edges found")

\* Graph::get_edges
get_edges(g, node) ==
    IF ~is_node_in_graph(g, node) THEN Err("Node not in graph")
    ELSE LET node_id == g.node_to_id[node]
         IN  IF node_id \in DOMAIN g.edges
             THEN LET e == g.edges[node_id]
                  IN  Ok("", [i \in 1..Len(e) |-> g.id_to_node[e[i]]])
             ELSE Err("No edges found")

\* Graph::get_nodes: the keys of node_to_id, which a HashMap yields in no
\* order the program controls
get_nodes(g) == DOMAIN g.node_to_id

----------------------------------------------------------------------------
(* The syntax tree the parser hands over (ruff_python_ast), as far as the   *)
(* program reads it.  Option<T> is <<>> for None and <<v>> for Some(v).     *)

None == <<>>
Some(v) == <<v>>

\* Expr::Name, Expr::Subscript, Expr::Attribute
Name(id) == [kind |-> "Name", id |-> id]
Subscript(value) == [kind |-> "Subscript", value |-> value]
Attribute(value, attr) == [kind |-> "Attribute", value |-> value, attr |-> attr]

\* Parameter and Parameters
Parameter(name, annotation) == [name |-> name, annotation |-> annotation]
Parameters(posonlyargs, args, vararg, kwonlyargs, kwarg) ==
    [posonlyargs |-> posonlyargs, args |-> args, vararg |-> vararg,
     kwonlyargs |-> kwonlyargs, kwarg |-> kwarg]
NoParameters == Parameters(<<>>, <<>>, None, <<>>, None)

\* Stmt::FunctionDef and Stmt::ClassDef
FunctionDef(name, decorator_list, parameters, returns, body) ==
    [kind |-> "FunctionDef", name |-> name, decorator_list |-> decorator_list,
     parameters |-> parameters, returns |-> returns, body |-> body]
ClassDef(name, arguments, body) ==
    [kind |-> "ClassDef", name |-> name, arguments |-> arguments, body |-> body]

\* the assignment statements and the compound statements
Assign(targets) == [kind |-> "Assign", targets |-> targets]
AugAssign(target) == [kind |-> "AugAssign", target |-> target]
AnnAssign(target) == [kind |-> "AnnAssign", target |-> target]
If(body, elif_else_clauses) ==
    [kind |-> "If", body |-> body, elif_else_clauses |-> elif_else_clauses]
Try(body, handlers, orelse, finalbody) ==
    [kind |-> "Try", body |-> body, handlers |-> handlers, orelse |-> orelse,
     finalbody |-> finalbody]
With(body) == [kind |-> "With", body |-> body]
Match(cases) == [kind |-> "Match", cases |-> cases]
Pass == [kind |-> "Pass"]

\* Stmt::Import and Stmt::ImportFrom; names are the aliases' dotted names
Import(names) == [kind |-> "Import", names |-> names]
ImportFrom(module, names) == [kind |-> "ImportFrom", module |-> module, names |-> names]

\* "__init__"
INIT == <<"_", "_", "i", "n", "i", "t", "_", "_">>

----------------------------------------------------------------------------
(* class_diagram/models.rs *)

Variable(name, visibility, variable_type) ==
    [name |-> name, visibility |-> visibility, variable_type |-> variable_type]

Function(name, visibility, arguments, return_type) ==
    [name |-> name, visibility |-> visibility, arguments |-> arguments,
     return_type |-> return_type]

ClassModel(name, attributes, methods, properties, class_type, static_methods, abstract_methods) ==
    [kind |-> "ClassModel", name |-> name, attributes |-> attributes,
     methods |-> methods, properties |-> properties, class_type |-> class_type,
     static_methods |-> static_methods, abstract_methods |-> abstract_methods]

----------------------------------------------------------------------------
(* class_diagram/python_to_model.rs *)

\* what a function that may panic (an unwrap of None or Err) comes to: its
\* value, or the panic that aborts the run
Returned(v) == [panic |-> FALSE, val |-> v]
Panicked == [panic |-> TRUE, val |-> <<>>]

\* Iterator::filter
Filter(s, Test(_)) == SelectSeq(s, Test)

\* Iterator::map
Map(s, F(_)) == [i \in 1..Len(s) |-> F(s[i])]

\* Vec::extend over a sequence of sequences
RECURSIVE Flatten(_)
Flatten(ss) == IF ss = <<>> THEN <<>> ELSE Head(ss) \o Flatten(Tail(ss))

\* a non-empty Vec as Some, an empty one as None
NonEmpty(v) == IF v # <<>> THEN Some(v) ELSE None

\* extract_visibility
extract_visibility(name) ==
    IF StartsWith(name, <<"_", "_">>) /\ ~EndsWith(name, <<"_", "_">>) THEN "PRIVATE"
    ELSE IF StartsWith(name, <<"_">>) THEN "PROTECTED"
    ELSE "PUBLIC"

\* extract_name
extract_name(class) == class.name

\* the function definitions of a class body: filter_map(function_def_stmt)
function_defs(body) == Filter(body, LAMBDA item : item.kind = "FunctionDef")

RECURSIVE RawAttributes(_, _)
\* the work-list loop of extract_raw_attributes: stack.pop() takes the last
\* statement pushed; Panic when targets[0] of an Assign is no attribute
RawAttributes(stack, res) ==
    IF stack = <<>> THEN Returned(res)
    ELSE LET current == stack[Len(stack)]
             rest == SubSeq(stack, 1, Len(stack) - 1)
         IN  CASE current.kind \in {"AugAssign", "AnnAssign"} ->
                    IF current.target.kind = "Attribute"
                    THEN RawAttributes(rest, Append(res, current.target.attr))
                    ELSE RawAttributes(rest, res)
               [] current.kind = "Match" ->
                    RawAttributes(rest \o Flatten(Map(current.cases, LAMBDA c : c.body)),
                                  res)
               [] current.kind \in {"ClassDef", "FunctionDef", "Try", "If", "With"} ->
                    RawAttributes(rest \o current.body, res)
               [] current.kind = "Assign" ->
                    IF current.targets[1].kind = "Attribute"
                    THEN RawAttributes(rest, Append(res, current.targets[1].attr))
                    ELSE Panicked
               [] OTHER -> RawAttributes(rest, res)

\* extract_raw_attributes
extract_raw_attributes(init_function) == RawAttributes(init_function.body, <<>>)

\* a faulty extract_attributes: a constructor that assigns no attribute gives
\* a present, empty list
extract_attributes_present_empty(parser_model) ==
    LET inits == Filter(function_defs(parser_model.body),
                        LAMBDA function : function.name = INIT)
    IN  IF inits = <<>> THEN Returned(None)
        ELSE LET raw_attributes == extract_raw_attributes(Head(inits))
             IN  IF raw_attributes.panic THEN Panicked
                 ELSE Returned(Some(Map(raw_attributes.val, LAMBDA name :
                                Variable(name, extract_visibility(name), ""))))

\* extract_attributes: None or Some(variables), unless it panics
extract_attributes(parser_model) ==
    LET inits == Filter(function_defs(parser_model.body),
                        LAMBDA function : function.name = INIT)
    IN  IF inits = <<>> THEN Returned(None)
        ELSE LET raw_attributes == extract_raw_attributes(Head(inits))
             IN  IF raw_attributes.panic THEN Panicked
                 ELSE IF raw_attributes.val # <<>>
                 THEN Returned(Some(Map(raw_attributes.val, LAMBDA name :
                                Variable(name, extract_visibility(name), ""))))
                 ELSE Returned(None)

\* does_function_have_decorator
does_function_have_decorator(function, decorator_name) ==
    \E i \in 1..Len(function.decorator_list) :
        /\ function.decorator_list[i].kind = "Name"
        /\ function.decorator_list[i].id = decorator_name

\* the annotation's identifier when it is a bare name: as_name_expr().map(id)
annotation_name(annotation) ==
    IF annotation # None /\ annotation[1].kind = "Name" THEN Some(annotation[1].id)
    ELSE None

\* extract_method_argument
extract_method_argument(argument) ==
    LET t == annotation_name(argument.annotation)
    IN  Variable(argument.name, extract_visibility(argument.name),
                 IF t # None THEN t[1] ELSE "")

\* extract_method_arguments: args, kwarg, kwonlyargs, posonlyargs, vararg
extract_method_arguments(method) ==
    LET ps == method.parameters
        res == Map(ps.args, extract_method_argument)
                 \o Map(ps.kwarg, extract_method_argument)
                 \o Map(ps.kwonlyargs, extract_method_argument)
                 \o Map(ps.posonlyargs, extract_method_argument)
                 \o Map(ps.vararg, extract_method_argument)
    IN  NonEmpty(res)

\* extract_method_return_type
extract_method_return_type(method) == annotation_name(method.returns)

\* extract_method
extract_method(method) ==
    Function(method.name, extract_visibility(method.name),
             extract_method_arguments(method), extract_method_return_type(method))

\* extract_methods
extract_methods(parser_model) ==
    LET raw_methods ==
            Filter(function_defs(parser_model.body), LAMBDA function :
                /\ function.name # INIT
                /\ ~does_function_have_decorator(function, "property")
                /\ ~does_function_have_decorator(function, "abstractmethod")
                /\ ~does_function_have_decorator(function, "staticmethod"))
    IN  IF raw_methods # <<>> THEN Some(Map(raw_methods, extract_method)) ELSE None

\* extract_properties
extract_properties(parser_model) ==
    LET raw_properties ==
            Filter(function_defs(parser_model.body), LAMBDA function :
                does_function_have_decorator(function, "property"))
    IN  IF raw_properties # <<>>
        THEN Some(Map(raw_properties, LAMBDA property :
                    LET t == extract_method_return_type(property)
                    IN  Variable(property.name, extract_visibility(property.name),
                                 IF t # None THEN t[1] ELSE "")))
        ELSE None

\* extract_abstract_methods
extract_abstract_methods(parser_model) ==
    LET raw_methods ==
            Filter(function_defs(parser_model.body), LAMBDA function :
                does_function_have_decorator(function, "abstractmethod"))
    IN  IF raw_methods # <<>> THEN Some(Map(raw_methods, extract_method)) ELSE None

\* extract_static_methods
extract_static_methods(parser_model) ==
    LET raw_methods ==
            Filter(function_defs(parser_model.body), LAMBDA function :
                does_function_have_decorator(function, "staticmethod"))
    IN  IF raw_methods # <<>> THEN Some(Map(raw_methods, extract_method)) ELSE None

\* extract_parent_class: Some(id), or None for an expression that is
\* skipped; it panics on a subscript whose value is no name
extract_parent_class(argument) ==
    IF argument.kind = "Name" THEN Returned(Some(argument.id))
    ELSE IF argument.kind = "Subscript"
    THEN IF argument.value.kind = "Name" THEN Returned(Some(argument.value.id))
         ELSE Panicked
    ELSE Returned(None)

\* extract_parent_classes: None or Some(ids), unless a base panics
extract_parent_classes(class) ==
    IF class.arguments # None
    THEN LET each == Map(class.arguments[1], extract_parent_class)
         IN  IF \E i \in 1..Len(each) : each[i].panic THEN Panicked
             ELSE Returned(Some(Flatten(Map(each, LAMBDA r : r.val))))
    ELSE Returned(None)

\* a faulty determine_class_type_from_parents: looks for Enum before ABC
determine_class_type_enum_first(parents) ==
    IF \E i \in 1..Len(parents) : parents[i] = "Enum" \/ parents[i] = "enum.Enum"
    THEN "ENUM"
    ELSE IF \E i \in 1..Len(parents) : parents[i] = "ABC" \/ parents[i] = "ABCMeta"
    THEN "ABSTRACT"
    ELSE IF \E i \in 1..Len(parents) : parents[i] = "Exception" THEN "EXCEPTION"
    ELSE "CLASS"

\* determine_class_type_from_parents
determine_class_type_from_parents(parents) ==
    IF \E i \in 1..Len(parents) : parents[i] = "ABC" \/ parents[i] = "ABCMeta"
    THEN "ABSTRACT"
    ELSE IF \E i \in 1..Len(parents) : parents[i] = "Enum" \/ parents[i] = "enum.Enum"
    THEN "ENUM"
    ELSE IF \E i \in 1..Len(parents) : parents[i] = "Exception" THEN "EXCEPTION"
    ELSE "CLASS"

\* what generate_model leaves when it panics
NoModel == [kind |-> "panic"]

\* generate_model: the ClassModel, or NoModel when a step of it panics
generate_model(class) ==
    LET parents == extract_parent_classes(class)
        attributes == extract_attributes(class)
    IN  IF parents.panic \/ attributes.panic THEN NoModel
        ELSE ClassModel(extract_name(class),
                        attributes.val,
                        extract_methods(class),
                        extract_properties(class),
                        IF parents.val # None
                        THEN determine_class_type_from_parents(parents.val[1])
                        ELSE "CLASS",
                        extract_static_methods(class),
                        extract_abstract_methods(class))

----------------------------------------------------------------------------
(* utils/tree.rs *)

\* TreeNode::new
TreeNode(value) == [value |-> value, children |-> <<>>]

\* TreeNode::add_child
add_child(node, child) == [node EXCEPT !.children = Append(@, child)]

\* a faulty insert: a new child is appended but the remaining parts are
\* dropped, and an existing child is left as it is
insert_shallow(root, parts) ==
    IF parts = <<>> THEN root
    ELSE IF \E i \in 1..Len(root.children) : root.children[i].value = Head(parts)
    THEN root
    ELSE add_child(root, TreeNode(Head(parts)))

RECURSIVE insert_prepend(_, _)
\* a faulty insert: a new child is put before the existing children
insert_prepend(root, parts) ==
    IF parts = <<>> THEN root
    ELSE IF \E i \in 1..Len(root.children) : root.children[i].value = Head(parts)
    THEN [root EXCEPT !.children =
                [i \in 1..Len(root.children) |->
                    IF root.children[i].value = Head(parts)
                    THEN insert_prepend(root.children[i], Tail(parts))
                    ELSE root.children[i]]]
    ELSE [root EXCEPT !.children =
                <<insert_prepend(TreeNode(Head(parts)), Tail(parts))>> \o root.children]

RECURSIVE insert(_, _)
\* insert: every child whose value is the first part takes the remaining
\* parts; when there is none, a new child is appended and takes them
insert(root, parts) ==
    IF parts = <<>> THEN root
    ELSE LET top == Head(parts)
             is_child_existing ==
                \E i \in 1..Len(root.children) : root.children[i].value = top
         IN  IF is_child_existing
             THEN [root EXCEPT !.children =
                        [i \in 1..Len(root.children) |->
                            IF root.children[i].value = top
                            THEN insert(root.children[i], Tail(parts))
                            ELSE root.children[i]]]
             ELSE add_child(root, insert(TreeNode(top), Tail(parts)))

----------------------------------------------------------------------------
(* std::path over the project's files.  A path string is split into its     *)
(* components; dirs holds the components of every directory that exists,    *)
(* existing the path strings of the .py files that exist.                   *)

\* Path::new(s).components()
Components(s) == Filter(Split(s, "/"), LAMBDA c : c # <<>>)

\* Path::to_str
to_str(components) == Join(components, "/")

\* Path::join and PathBuf::push of a relative path string
join(components, s) == components \o Components(s)

\* Path::strip_prefix(base).unwrap()
strip_prefix(components, base) ==
    IF Len(components) >= Len(base) /\ SubSeq(components, 1, Len(base)) = base
    THEN Returned(SubSeq(components, Len(base) + 1, Len(components)))
    ELSE Panicked

\* Path::parent().unwrap()
parent(components) ==
    IF components = <<>> THEN Panicked
    ELSE Returned(SubSeq(components, 1, Len(components) - 1))

\* Path::file_stem().unwrap(): the file name up to its last dot, the whole
\* name when it has no dot or only a leading one
file_stem(components) ==
    IF components = <<>> THEN Panicked
    ELSE LET file_name == components[Len(components)]
             dots == {i \in 1..Len(file_name) : file_name[i] = "."}
             last == CHOOSE i \in dots : \A j \in dots : j <= i
         IN  IF dots = {} \/ last = 1 THEN Returned(file_name)
             ELSE Returned(SubSeq(file_name, 1, last - 1))

\* Path::is_dir
is_dir(components) == components \in dirs

\* Path::is_file
is_file(components) == \E f \in existing : Components(f) = components

----------------------------------------------------------------------------
(* dependency_graph/module.rs and dependency_graph/python_utils.rs *)

\* PythonModule::new
PythonModule(name, packages) == [name |-> name, packages |-> packages]

\* split_import
split_import(import) == Split(import, ".")

\* a faulty is_import_internal: a source file of that name passes too
is_import_internal_or_file(import, root_dir) ==
    \/ is_dir(join(Components(root_dir), split_import(import)[1]))
    \/ is_file(join(Components(root_dir), split_import(import)[1] \o <<".", "p", "y">>))

\* is_import_internal
is_import_internal(import, root_dir) ==
    is_dir(join(Components(root_dir), split_import(import)[1]))

RECURSIVE ImportWalk(_, _, _)
\* the loop of extract_module_name_from_import over the parts left
ImportWalk(parts, current_path, res) ==
    IF parts = <<>> THEN res
    ELSE LET part == Head(parts)
             current_path_as_file == join(current_path, part \o <<".", "p", "y">>)
             pushed == join(current_path, part)
         IN  IF ~(is_dir(pushed) \/ is_file(current_path_as_file)) THEN res
             ELSE ImportWalk(Tail(parts), pushed, Append(res, part))

RECURSIVE DirWalk(_, _, _)
\* a walk that accepts a part only when it names a directory
DirWalk(parts, current_path, res) ==
    IF parts = <<>> THEN res
    ELSE IF ~is_dir(join(current_path, Head(parts))) THEN res
    ELSE DirWalk(Tail(parts), join(current_path, Head(parts)), Append(res, Head(parts)))

\* a faulty extract_module_name_from_import: a module file ends no path
extract_module_name_dirs_only(import, root_dir) ==
    Join(DirWalk(split_import(import), Components(root_dir), <<>>), ".")

\* extract_module_name_from_import
extract_module_name_from_import(import, root_dir) ==
    Join(ImportWalk(split_import(import), Components(root_dir), <<>>), ".")

----------------------------------------------------------------------------
(* dependency_graph/python_to_graph.rs and dependency_graph/graph_to_uml.rs *)

\* extract_module_name_from_file_path
extract_module_name_from_file_path(filepath) == file_stem(Components(filepath))

\* extract_packages
extract_packages(root_dir, file_path) ==
    LET stripped == strip_prefix(file_path, Components(root_dir))
    IN  IF stripped.panic THEN Panicked
        ELSE IF parent(stripped.val).panic THEN Panicked
        ELSE Returned(Split(to_str(parent(stripped.val).val), "/"))

\* extract_names_from_import_statement
extract_names_from_import_statement(item) == Range(item.names)

\* extract_names_from_import_from_statement
extract_names_from_import_from_statement(item) ==
    IF item.module = None THEN {}
    ELSE {item.module[1] \o <<".">> \o item.names[i] : i \in 1..Len(item.names)}

\* the PythonModule extract_names builds from a resolved import
module_of_import(name) ==
    LET names == split_import(name)
    IN  PythonModule(names[Len(names)], SubSeq(names, 1, Len(names) - 1))

\* extract_names
extract_names(item, root_dir) ==
    LET names == IF item.kind = "ImportFrom"
                 THEN extract_names_from_import_from_statement(item)
                 ELSE IF item.kind = "Import"
                 THEN extract_names_from_import_statement(item)
                 ELSE {}
        resolved == {extract_module_name_from_import(name, root_dir) : name \in names}
        internal == {name \in resolved : is_import_internal(name, root_dir)}
    IN  {m \in {module_of_import(name) : name \in internal} : m.name # <<>>}

\* get_all_dependencies on the content of the file: it panics when the file
\* cannot be read or is not UTF-8, and when its text does not parse
get_all_dependencies(text, root_dir) ==
    IF ~text.read \/ ~text.ok THEN Panicked
    ELSE Returned(UNION {extract_names(text.body[i], root_dir) :
                            i \in 1..Len(text.body)})

RECURSIVE AddDependencies(_, _, _)
\* the loop of build_dependency_graph over one file's dependencies
AddDependencies(g, module, dependencies) ==
    IF dependencies = <<>> THEN g
    ELSE LET dependency == Head(dependencies)
             g1 == IF ~is_node_in_graph(g, dependency)
                   THEN add_node(g, dependency).g ELSE g
             g2 == add_edge(g1, module, dependency).g
         IN  AddDependencies(g2, module, Tail(dependencies))

\* the orders in which a HashSet or the keys of a HashMap may be iterated
Orders(S) ==
    {s \in [1..Cardinality(S) -> S] : \A i, j \in 1..Cardinality(S) : s[i] = s[j] => i = j}

\* "pygrader"
PYGRADER == <<"p", "y", "g", "r", "a", "d", "e", "r">>

\* the path build_tree_from_dependency_graph inserts for a node
tree_path(node) == Append(Filter(node.packages, LAMBDA item : item # <<>>), node.name)

RECURSIVE InsertAll(_, _)
\* the loop of build_tree_from_dependency_graph over the nodes as iterated
InsertAll(root, nodes) ==
    IF nodes = <<>> THEN root
    ELSE InsertAll(insert(root, tree_path(Head(nodes))), Tail(nodes))

\* build_tree_from_dependency_graph, for one iteration order of get_nodes
build_tree_from_dependency_graph(nodes) == InsertAll(TreeNode(PYGRADER), nodes)

\* "Failed to parse Python file: "
FAILED_TO_PARSE ==
    <<"F", "a", "i", "l", "e", "d", " ", "t", "o", " ", "p", "a", "r", "s", "e", " ",
      "P", "y", "t", "h", "o", "n", " ", "f", "i", "l", "e", ":", " ">>

\* extract_classes on the content of the file: it panics when the file cannot
\* be read or is not UTF-8; else Ok(the top-level class definitions), or Err
\* with the parser's error after "Failed to parse Python file: "
extract_classes(text) ==
    IF ~text.read THEN Panicked
    ELSE IF text.ok
    THEN Returned(Ok("", Filter(text.body, LAMBDA stmt : stmt.kind = "ClassDef")))
    ELSE Returned(Err(FAILED_TO_PARSE \o text.error))

\* the substring test of str::contains
Contains(str, sub) ==
    \E i \in 1..(Len(str) - Len(sub) + 1) : SubSeq(str, i, i + Len(sub) - 1) = sub

\* is_path_ignored: the path string contains .venv, tests, docs or __init__.py
is_path_ignored(path) ==
    \/ Contains(path, <<".", "v", "e", "n", "v">>)
    \/ Contains(path, <<"t", "e", "s", "t", "s">>)
    \/ Contains(path, <<"d", "o", "c", "s">>)
    \/ Contains(path, <<"_", "_", "i", "n", "i", "t", "_", "_", ".", "p", "y">>)

\* the entries below one directory come one after another in a walk
WalkOrder(order) ==
    \A d \in dirs : \A i, j, k \in 1..Len(order) :
        (/\ i < j /\ j < k
         /\ strip_prefix(Components(order[i]), d).panic = FALSE
         /\ strip_prefix(Components(order[k]), d).panic = FALSE)
            => strip_prefix(Components(order[j]), d).panic = FALSE

\* discover_files: the .py files under the root that are not ignored, in
\* one of the orders a walk of the directories may take
discover_files(root) ==
    {order \in Orders({f \in existing :
                            /\ ~strip_prefix(Components(f), Components(root)).panic
                            /\ EndsWith(f, <<".", "p", "y">>)
                            /\ ~is_path_ignored(f)}) : WalkOrder(order)}

----------------------------------------------------------------------------
(* The graph driven by an arbitrary caller *)

\* the node values the caller draws from (T = a small integer type)
NodeVals == {1, 2, 3}

NoCall == [op |-> "none", a |-> 0, b |-> 0]
NoResult == Err("")

IdleGraph == graph = NewGraph /\ call = NoCall /\ result = NoResult /\ edge_log = <<>>
IdleVis == name_in = <<>> /\ visibility_out = "none"
IdleClass == class_def = [kind |-> "none"] /\ class_model = [kind |-> "none"]
IdleRun ==
    /\ mode = "none" /\ dirs = {} /\ existing = {} /\ files = <<>> /\ next_file = 0
    /\ file_text = <<>> /\ models = <<>> /\ tree = TreeNode(<<>>) /\ status = "idle"

IdleUnit == import_in = <<>> /\ canonical_out = <<>> /\ inserted = <<>>

InitGraph == IdleGraph /\ IdleVis /\ IdleClass /\ IdleRun /\ IdleUnit

AddNode(n) ==
    /\ graph' = add_node(graph, n).g
    /\ result' = add_node(graph, n).res
    /\ call' = [op |-> "add_node", a |-> n, b |-> 0]
    /\ UNCHANGED unitVars
    /\ UNCHANGED <<edge_log, visVars, classVars, runVars>>

AddEdge(a, b) ==
    /\ Len(edge_log) < MaxEdges \/ ~add_edge(graph, a, b).res.ok
    /\ graph' = add_edge(graph, a, b).g
    /\ result' = add_edge(graph, a, b).res
    /\ call' = [op |-> "add_edge", a |-> a, b |-> b]
    /\ edge_log' = IF add_edge(graph, a, b).res.ok
                   THEN Append(edge_log, <<a, b>>) ELSE edge_log
    /\ UNCHANGED unitVars
    /\ UNCHANGED <<visVars, classVars, runVars>>

GetEdges(n) ==
    /\ result' = get_edges(graph, n)
    /\ call' = [op |-> "get_edges", a |-> n, b |-> 0]
    /\ UNCHANGED unitVars
    /\ UNCHANGED <<graph, edge_log, visVars, classVars, runVars>>

NextGraph ==
    \/ \E n \in NodeVals : AddNode(n)
    \/ \E a \in NodeVals, b \in NodeVals : AddEdge(a, b)
    \/ \E n \in NodeVals : GetEdges(n)

SpecGraph == InitGraph /\ [][NextGraph]_vars

----------------------------------------------------------------------------
(* extract_visibility applied to an arbitrary identifier *)

NameChars == {"_", "x"}

InitVis ==
    /\ name_in \in SeqsUpTo(NameChars, MaxNameLen)
    /\ visibility_out = "none"
    /\ IdleGraph /\ IdleClass /\ IdleRun /\ IdleUnit

ExtractVisibility ==
    /\ visibility_out = "none"
    /\ visibility_out' = extract_visibility(name_in)
    /\ UNCHANGED unitVars
    /\ UNCHANGED <<name_in, graphVars, classVars, runVars>>

NextVis == ExtractVisibility

SpecVis == InitVis /\ [][NextVis]_vars

----------------------------------------------------------------------------
(* generate_model applied to an arbitrary class definition *)

\* the base-class expressions a class may declare: bare names, a subscripted
\* name (Generic[T]), an attribute (abc.ABC) and a subscripted attribute
\* (typing.Generic[T])
BaseExprs ==
    {Name("ABC"), Name("ABCMeta"), Name("Enum"), Name("Exception"), Name("Base"),
     Subscript(Name("Enum")),
     Attribute(Name("abc"), <<"A", "B", "C">>),
     Subscript(Attribute(Name("typing"), <<"G">>))}

\* the decorator lists a method may carry
DecoratorLists ==
    {<<>>,
     <<Name("property")>>, <<Name("abstractmethod")>>, <<Name("staticmethod")>>,
     <<Name("cache")>>,
     <<Attribute(Name("abc"), <<"a", "b", "s">>)>>,
     <<Name("property"), Name("abstractmethod")>>,
     <<Name("abstractmethod"), Name("property")>>,
     <<Name("staticmethod"), Name("abstractmethod")>>,
     <<Name("property"), Name("staticmethod")>>,
     <<Name("property"), Name("abstractmethod"), Name("staticmethod")>>}

MethodNames == {INIT, <<"f">>, <<"_", "g">>}

MethodDefs ==
    {FunctionDef(n, d, NoParameters, None, <<Pass>>) :
        n \in MethodNames, d \in DecoratorLists}

\* self.x, self._y and the local name y as assignment targets
SelfX == Attribute(Name("self"), <<"x">>)
SelfY == Attribute(Name("self"), <<"_", "y">>)
LocalY == Name("y")

\* a clause of a compound statement that has a body of its own: an elif or
\* else clause, an exception handler, a match case
Clause(body) == [body |-> body]

\* the statements a constructor body is made of: assignments of each kind to
\* an attribute and to a local name, and each compound statement with an
\* assignment in one of its blocks
InitStmts ==
    {Pass,
     Assign(<<SelfX>>), AugAssign(SelfX), AnnAssign(SelfY),
     Assign(<<LocalY>>), AugAssign(LocalY), AnnAssign(LocalY),
     If(<<Assign(<<SelfX>>)>>, <<>>),
     If(<<Pass>>, <<Clause(<<Assign(<<SelfY>>)>>)>>),
     If(<<With(<<AugAssign(SelfX)>>)>>, <<Clause(<<Pass>>)>>),
     Try(<<AnnAssign(SelfY)>>, <<>>, <<>>, <<>>),
     Try(<<Pass>>, <<Clause(<<Assign(<<SelfX>>)>>)>>, <<>>, <<>>),
     Try(<<Pass>>, <<>>, <<AugAssign(SelfX)>>, <<AnnAssign(SelfY)>>),
     With(<<Assign(<<SelfX>>)>>),
     Match(<<Clause(<<Assign(<<SelfX>>)>>), Clause(<<AnnAssign(SelfY)>>)>>),
     FunctionDef(<<"h">>, <<>>, NoParameters, None, <<Assign(<<SelfX>>)>>),
     ClassDef("Inner", None, <<AugAssign(SelfY)>>)}

\* a constructor with the given body
InitDef(body) == FunctionDef(INIT, <<>>, NoParameters, None, body)

\* the names of the parameters of each group, in declaration order
ArgNames == <<<<"a">>, <<"b">>, <<"c">>>>
PosonlyNames == <<<<"p">>, <<"q">>, <<"r">>>>
KwonlyNames == <<<<"k">>, <<"l">>, <<"m">>>>

\* the annotation of the n-th parameter of a group: none, a bare name, a
\* subscript
AnnotationOf(n) ==
    IF n = 1 THEN None ELSE IF n = 2 THEN Some(Name("int"))
    ELSE Some(Subscript(Name("list")))

\* the first n parameters of a group
Group(names, n) == [i \in 1..n |-> Parameter(names[i], AnnotationOf(i))]

\* the parameter lists a method may declare
ParameterLists ==
    {Parameters(Group(PosonlyNames, p), Group(ArgNames, a), v, Group(KwonlyNames, k), w) :
        p \in 0..MaxParams, a \in 0..MaxParams, k \in 0..MaxParams,
        v \in {None, Some(Parameter(<<"v">>, None))},
        w \in {None, Some(Parameter(<<"w">>, Some(Name("dict"))))}}

\* the class definitions generate_model is tried on
ClassInputs ==
    {ClassDef("Foo", None, <<>>)}
    \cup {ClassDef("Foo", Some(b), <<>>) : b \in SeqsUpTo(BaseExprs, MaxBases)}
    \cup {ClassDef("Foo", None, b) : b \in SeqsUpTo(MethodDefs, MaxMethods)}
    \cup {ClassDef("Foo", Some(<<Name("ABC")>>), <<InitDef(b)>>) :
                b \in SeqsUpTo(InitStmts, MaxStmts)}
    \cup {ClassDef("Foo", None, <<FunctionDef(<<"f">>, d, ps, None, <<Pass>>)>>) :
                ps \in ParameterLists,
                d \in {<<>>, <<Name("staticmethod")>>, <<Name("abstractmethod")>>}}

InitClass ==
    /\ class_def \in ClassInputs
    /\ class_model = [kind |-> "none"]
    /\ IdleGraph /\ IdleVis /\ IdleRun /\ IdleUnit

GenerateModel ==
    /\ class_model = [kind |-> "none"]
    /\ class_model' = generate_model(class_def)
    /\ UNCHANGED unitVars
    /\ UNCHANGED <<class_def, graphVars, visVars, runVars>>

NextClass == GenerateModel

SpecClass == InitClass /\ [][NextClass]_vars

----------------------------------------------------------------------------
(* One run of main over a project: the files discovered under the root,     *)
(* their texts as they are read, and the diagram model built from them      *)

\* the root directory given on the command line
ROOT == <<"r">>

\* the directories that may exist below the root, and the .py files
DirCandidates == {<<"p">>, <<"p", "/", "q">>}
FileCandidates ==
    {<<"m", ".", "p", "y">>,
     <<"p", ".", "p", "y">>,
     <<"p", "/", "a", ".", "p", "y">>,
     <<"p", "/", "b", ".", "p", "y">>,
     <<"p", "/", "q", "/", "m", ".", "p", "y">>,
     <<"p", "/", "d", "o", "c", "s", ".", "p", "y">>,
     <<"p", "/", "_", "_", "i", "n", "i", "t", "_", "_", ".", "p", "y">>}

UnderRoot(rel) == ROOT \o <<"/">> \o rel

\* a class with a constructor that assigns one attribute, and a plain class
FooClass ==
    ClassDef("Foo", Some(<<Name("ABC")>>),
        <<FunctionDef(INIT, <<>>, NoParameters, None,
            <<Assign(<<Attribute(Name("self"), <<"x">>)>>)>>)>>)
BarClass ==
    ClassDef("Bar", None,
        <<FunctionDef(<<"r", "u", "n">>, <<>>, NoParameters, None, <<Pass>>)>>)

\* what reading and parsing a file comes to: the module parse_module
\* returns, the error it returns, or no text at all when the file cannot be
\* read or is not valid UTF-8
Parsed(body) == [read |-> TRUE, ok |-> TRUE, body |-> body, error |-> <<>>]
ParseError == [read |-> TRUE, ok |-> FALSE, body |-> <<>>, error |-> <<"e", "r", "r">>]
Unreadable == [read |-> FALSE, ok |-> FALSE, body |-> <<>>, error |-> <<>>]

\* the directories D and .py files F (paths below the root) form a layout:
\* each lies in a directory of the layout
Layout(D, F) ==
    /\ \A d \in D : Len(Components(d)) = 1
                        \/ to_str(parent(Components(d)).val) \in D
    /\ \A f \in F : Len(Components(f)) = 1
                        \/ to_str(parent(Components(f)).val) \in D
    /\ Cardinality(F) <= MaxFiles

\* the texts a file may hold
FileTexts ==
    {ParseError,
     Unreadable,
     Parsed(<<>>),
     Parsed(<<ImportFrom(Some(<<"p">>), << <<"a">> >>)>>),
     Parsed(<<Import(<< <<"p">>, <<"m">> >>), BarClass>>),
     Parsed(<<Import(<< <<"p", ".", "q", ".", "m">> >>), Import(<< <<"x", ".", "y">> >>)>>),
     Parsed(<<ImportFrom(None, << <<"a">> >>), FooClass>>),
     Parsed(<<ImportFrom(Some(<<"p">>), << <<"d", "o", "c", "s">> >>)>>),
     Parsed(<<Import(<< <<"p", ".", "a">> >>),
              ImportFrom(Some(<<"p">>), << <<"a">>, <<"b">> >>)>>),
     Parsed(<<FooClass, Pass, BarClass>>)}

InitRun ==
    /\ mode \in {"Class", "Dependency"}
    /\ \E D \in SUBSET DirCandidates, F \in SUBSET FileCandidates :
        /\ Layout(D, F)
        /\ dirs = {Components(ROOT)} \cup {Components(UnderRoot(d)) : d \in D}
        /\ existing = {UnderRoot(f) : f \in F}
    /\ files \in discover_files(ROOT)
    /\ next_file = 1
    /\ file_text = <<>>
    /\ models = <<>>
    /\ graph = NewGraph
    /\ tree = TreeNode(<<>>)
    /\ status = "running"
    /\ call = NoCall /\ result = NoResult /\ edge_log = <<>>
    /\ IdleVis /\ IdleClass /\ IdleUnit

\* one pass of the loop of build_dependency_graph
ScanDependencies ==
    /\ mode = "Dependency" /\ status = "running" /\ next_file <= Len(files)
    /\ \E text \in FileTexts :
        LET filepath == files[next_file]
            module_name == extract_module_name_from_file_path(filepath)
            packages == extract_packages(ROOT, Components(filepath))
            module == PythonModule(module_name.val, packages.val)
            g1 == add_node(graph, module).g
            dependencies == get_all_dependencies(text, ROOT)
        IN  /\ file_text' = (filepath :> text) @@ file_text
            /\ IF module_name.panic \/ packages.panic
               THEN status' = "panicked" /\ UNCHANGED <<graph, next_file>>
               ELSE IF dependencies.panic
               THEN status' = "panicked" /\ graph' = g1 /\ UNCHANGED next_file
               ELSE /\ \E order \in Orders(dependencies.val) :
                            graph' = AddDependencies(g1, module, order)
                    /\ next_file' = next_file + 1
                    /\ UNCHANGED status
    /\ UNCHANGED unitVars
    /\ UNCHANGED <<call, result, edge_log, mode, dirs, existing, files, models, tree,
                   visVars, classVars>>

\* graph_to_uml::generate_plantuml on the graph built: the package tree
GeneratePlantuml ==
    /\ mode = "Dependency" /\ status = "running" /\ next_file > Len(files)
    /\ \E order \in Orders(get_nodes(graph)) :
            tree' = build_tree_from_dependency_graph(order)
    /\ status' = "done"
    /\ UNCHANGED unitVars
    /\ UNCHANGED <<graphVars, mode, dirs, existing, files, next_file, file_text, models,
                   visVars, classVars>>

\* generate_models on one file: its classes' models, none when it does not
\* parse; the run aborts when the file cannot be read or is not UTF-8
ScanClasses ==
    /\ mode = "Class" /\ status = "running" /\ next_file <= Len(files)
    /\ \E text \in FileTexts :
        LET filepath == files[next_file]
            classes == extract_classes(text)
            made == IF classes.panic THEN <<>>
                    ELSE Map(classes.val.val, generate_model)
        IN  /\ file_text' = (filepath :> text) @@ file_text
            /\ IF classes.panic \/ \E i \in 1..Len(made) : made[i] = NoModel
               THEN status' = "panicked" /\ UNCHANGED <<models, next_file>>
               ELSE /\ models' = models \o made
                    /\ next_file' = next_file + 1
                    /\ UNCHANGED status
    /\ UNCHANGED unitVars
    /\ UNCHANGED <<graphVars, mode, dirs, existing, files, tree, visVars, classVars>>

\* model_to_uml::generate_plantuml on the models collected
GenerateClassDiagram ==
    /\ mode = "Class" /\ status = "running" /\ next_file > Len(files)
    /\ status' = "done"
    /\ UNCHANGED unitVars
    /\ UNCHANGED <<graphVars, mode, dirs, existing, files, next_file, file_text, models,
                   tree, visVars, classVars>>

NextRun ==
    \/ ScanDependencies
    \/ GeneratePlantuml
    \/ ScanClasses
    \/ GenerateClassDiagram

SpecRun == InitRun /\ [][NextRun]_vars

----------------------------------------------------------------------------
(* extract_module_name_from_import applied to an arbitrary dotted path over *)
(* an arbitrary layout of directories and files under the root              *)

\* the segments an import is made of
SegmentNames == {<<"p">>, <<"q">>, <<"a">>, <<"m">>, <<"x">>, <<"d", "o", "c", "s">>}

\* the dotted paths handed in: one to MaxSegments segments
ImportPaths ==
    {Join(segs, ".") : segs \in SeqsUpTo(SegmentNames, MaxSegments) \ {<<>>}}

InitImport ==
    /\ import_in \in ImportPaths
    /\ canonical_out = <<>>
    /\ inserted = <<>>
    /\ \E D \in SUBSET DirCandidates, F \in SUBSET FileCandidates :
        /\ Layout(D, F)
        /\ dirs = {Components(ROOT)} \cup {Components(UnderRoot(d)) : d \in D}
        /\ existing = {UnderRoot(f) : f \in F}
    /\ files = <<>>
    /\ mode = "none" /\ next_file = 0 /\ file_text = <<>> /\ models = <<>>
    /\ tree = TreeNode(<<>>) /\ status = "idle"
    /\ IdleGraph /\ IdleVis /\ IdleClass

\* one call of extract_module_name_from_import on the import, against the root
ResolveImport ==
    /\ Len(canonical_out) < 2
    /\ canonical_out' =
            Append(canonical_out, extract_module_name_from_import(import_in, ROOT))
    /\ UNCHANGED <<import_in, inserted, graphVars, visVars, classVars, runVars>>

NextImport == ResolveImport

SpecImport == InitImport /\ [][NextImport]_vars

----------------------------------------------------------------------------
(* insert applied to an arbitrary sequence of paths, from a root without    *)
(* children                                                                 *)

\* the paths handed to insert
TreePaths ==
    {<<>>,
     <<<<"p">>>>, <<<<"q">>>>, <<<<"a">>>>,
     <<<<"p">>, <<"a">>>>, <<<<"p">>, <<"b">>>>, <<<<"q">>, <<"a">>>>,
     <<<<"p">>, <<"q">>, <<"m">>>>, <<<<"p">>, <<"a">>, <<"m">>>>}

InitTree ==
    /\ tree = TreeNode(PYGRADER)
    /\ inserted = <<>>
    /\ import_in = <<>> /\ canonical_out = <<>>
    /\ mode = "none" /\ dirs = {} /\ existing = {} /\ files = <<>> /\ next_file = 0
    /\ file_text = <<>> /\ models = <<>> /\ status = "idle"
    /\ IdleGraph /\ IdleVis /\ IdleClass

\* one call of insert on the tree
Insert(parts) ==
    /\ Len(inserted) < MaxInserts
    /\ tree' = insert(tree, parts)
    /\ inserted' = Append(inserted, parts)
    /\ UNCHANGED <<import_in, canonical_out, graphVars, visVars, classVars,
                   mode, dirs, existing, files, next_file, file_text, models, status>>

NextTree == \E parts \in TreePaths : Insert(parts)

SpecTree == InitTree /\ [][NextTree]_vars

----------------------------------------------------------------------------
(* Claims about the graph (SpecGraph) *)

Nodes(g) == DOMAIN g.node_to_id

\* the ordered pair (a, b) is stored as an edge of g
HasEdge(g, a, b) ==
    /\ a \in Nodes(g) /\ b \in Nodes(g)
    /\ g.node_to_id[a] \in DOMAIN g.edges
    /\ \E k \in 1..Len(g.edges[g.node_to_id[a]]) :
            g.edges[g.node_to_id[a]][k] = g.node_to_id[b]

\* every stored edge joins two existing nodes and no pair is stored twice
EdgesWellFormed(g) ==
    \A i \in DOMAIN g.edges :
        /\ i \in DOMAIN g.id_to_node
        /\ \A k \in 1..Len(g.edges[i]) : g.edges[i][k] \in DOMAIN g.id_to_node
        /\ \A k1, k2 \in 1..Len(g.edges[i]) :
                k1 # k2 => g.edges[i][k1] # g.edges[i][k2]

\* the number of stored edges
StoredEdges(g) ==
    Cardinality({<<i, k>> \in (DOMAIN g.edges) \X (1..(MaxEdges + 2)) :
                    k <= Len(g.edges[i])})

AddEdgeStep ==
    call'.op = "add_edge" =>
        LET a == call'.a
            b == call'.b
            mustFail == a \notin Nodes(graph) \/ b \notin Nodes(graph)
                            \/ HasEdge(graph, a, b)
        IN  /\ mustFail => ~result'.ok /\ graph' = graph
            /\ ~mustFail =>
                    /\ result'.ok
                    /\ HasEdge(graph', a, b)
                    /\ graph'.node_to_id = graph.node_to_id
                    /\ graph'.id_to_node = graph.id_to_node
                    /\ StoredEdges(graph') = StoredEdges(graph) + 1

\* C1: add_edge(a, b) fails when a or b is not a node and when (a, b) is
\* already an edge, and then leaves nodes, indices and adjacency lists as they
\* were; otherwise it succeeds and stores the edge once.  In every reachable
\* graph each stored edge joins two existing nodes and no ordered pair is
\* stored twice.
C1_AddEdgeContract == [](EdgesWellFormed(graph)) /\ [][AddEdgeStep]_vars

\* a second add_edge of a stored pair was refused, in a graph that also holds
\* another edge
C1_Witness ==
    /\ call.op = "add_edge" /\ result.msg = "Edge already exists"
    /\ HasEdge(graph, call.a, call.b)
    /\ Len(edge_log) >= 2

AddNodeStep ==
    call'.op = "add_node" =>
        LET n == call'.a
        IN  /\ result'.ok => is_node_in_graph(graph', n)
            /\ ~is_node_in_graph(graph, n) => result'.ok
            /\ is_node_in_graph(graph, n) =>
                    /\ ~result'.ok
                    /\ result'.msg = "Node already in graph."
                    /\ Cardinality(get_nodes(graph')) = Cardinality(get_nodes(graph))
            /\ \A m \in Nodes(graph) :
                    /\ m \in Nodes(graph')
                    /\ graph'.node_to_id[m] = graph.node_to_id[m]

\* C2: when add_node(n) succeeds, has_node(n) holds right after; when an equal
\* value is present, add_node(n) reports the duplicate and the number of
\* nodes and every existing node's index stay as they were.
C2_AddNodeContract == [][AddNodeStep]_vars

\* a repeated add_node was refused in a graph of two nodes
C2_Witness ==
    /\ call.op = "add_node" /\ ~result.ok
    /\ call.a \in Nodes(graph)
    /\ Cardinality(Nodes(graph)) >= 2

RECURSIVE SuccessorsIn(_, _)
\* the targets of the logged edges that start at n, in the order logged
SuccessorsIn(log, n) ==
    IF log = <<>> THEN <<>>
    ELSE IF Head(log)[1] = n THEN <<Head(log)[2]>> \o SuccessorsIn(Tail(log), n)
    ELSE SuccessorsIn(Tail(log), n)

\* C3 as stated: for a node of the graph get_edges returns its successors in
\* edge-insertion order, the empty sequence when it has none, and it returns
\* an error only when n is not a node.
C3_GetEdgesTotalOnNodes ==
    call.op = "get_edges" =>
        IF call.a \in Nodes(graph)
        THEN result.ok /\ result.val = SuccessorsIn(edge_log, call.a)
        ELSE ~result.ok

\* C3 amended: for a node with at least one outgoing edge get_edges returns
\* its successors in edge-insertion order; it returns an error when n is not
\* a node and also when n is a node without outgoing edges.
C3_GetEdgesAmended ==
    call.op = "get_edges" =>
        IF call.a \in Nodes(graph) /\ SuccessorsIn(edge_log, call.a) # <<>>
        THEN result.ok /\ result.val = SuccessorsIn(edge_log, call.a)
        ELSE ~result.ok

\* get_edges answered with two successors that were inserted in the order
\* opposite to their node indices
C3_Witness ==
    /\ call.op = "get_edges" /\ result.ok
    /\ Len(result.val) = 2
    /\ graph.node_to_id[result.val[1]] > graph.node_to_id[result.val[2]]

----------------------------------------------------------------------------
(* Claims about class extraction (SpecVis, SpecClass) *)

\* the visibility the naming rule gives: two leading underscores without two
\* trailing ones is PRIVATE, exactly one leading underscore is PROTECTED,
\* every other name is PUBLIC
VisibilityByRule(name) ==
    LET n == Len(name)
        twoLeading == n >= 2 /\ name[1] = "_" /\ name[2] = "_"
        twoTrailing == n >= 2 /\ name[n - 1] = "_" /\ name[n] = "_"
        oneLeading == n >= 1 /\ name[1] = "_" /\ (n = 1 \/ name[2] # "_")
    IN  IF twoLeading /\ ~twoTrailing THEN "PRIVATE"
        ELSE IF oneLeading THEN "PROTECTED"
        ELSE "PUBLIC"

\* C4: the visibility inferred for a name is the one the naming rule gives; a
\* dunder name such as "__x__" is PUBLIC.
C4_VisibilityByName ==
    visibility_out # "none" => visibility_out = VisibilityByRule(name_in)

\* the names held by an optional list of functions or variables
NamesOf(opt) == IF opt = None THEN <<>> ELSE Map(opt[1], LAMBDA f : f.name)

\* the one list a method belongs to: property, then abstract, then static,
\* else plain
CategoryOf(function) ==
    IF does_function_have_decorator(function, "property") THEN "properties"
    ELSE IF does_function_have_decorator(function, "abstractmethod")
    THEN "abstract_methods"
    ELSE IF does_function_have_decorator(function, "staticmethod")
    THEN "static_methods"
    ELSE "methods"

\* the names of the methods of a class, the constructor left out, that belong
\* to a list, in declaration order
MembersOf(class, category) ==
    NamesOf(Some(Filter(function_defs(class.body), LAMBDA function :
                function.name # INIT /\ CategoryOf(function) = category)))

\* C5: every method other than the constructor is in exactly one of
\* properties, abstract_methods, static_methods and methods, the one its
\* markers give by the priority property > abstract > static > plain, and the
\* constructor is in none.
C5_MethodPartition ==
    class_model.kind = "ClassModel" =>
        /\ NamesOf(class_model.properties) = MembersOf(class_def, "properties")
        /\ NamesOf(class_model.abstract_methods) = MembersOf(class_def, "abstract_methods")
        /\ NamesOf(class_model.static_methods) = MembersOf(class_def, "static_methods")
        /\ NamesOf(class_model.methods) = MembersOf(class_def, "methods")

\* the identifiers of the declared bases: bare names and the names that are
\* subscripted
DeclaredBaseIds(class) ==
    IF class.arguments = None THEN {}
    ELSE LET bases == class.arguments[1]
         IN  {bases[i].id : i \in {j \in 1..Len(bases) : bases[j].kind = "Name"}}
             \cup {bases[i].value.id : i \in {j \in 1..Len(bases) :
                        bases[j].kind = "Subscript" /\ bases[j].value.kind = "Name"}}

ClassTypeByPriority(ids) ==
    IF ids \cap {"ABC", "ABCMeta"} # {} THEN "ABSTRACT"
    ELSE IF ids \cap {"Enum", "enum.Enum"} # {} THEN "ENUM"
    ELSE IF "Exception" \in ids THEN "EXCEPTION"
    ELSE "CLASS"

\* C6: the class type of a model is ABSTRACT when any declared base is an
\* abstract-base marker, else ENUM when any is an enumeration marker, else
\* EXCEPTION when any is the exception marker, else CLASS (also for absent or
\* empty bases), whatever the order of the bases.
C6_ClassTypePriority ==
    class_model.kind = "ClassModel" =>
        class_model.class_type = ClassTypeByPriority(DeclaredBaseIds(class_def))

\* bases ["Enum", "ABC"] gave ABSTRACT
C6_Witness ==
    /\ class_def.kind = "ClassDef"
    /\ class_def.arguments = Some(<<Name("Enum"), Name("ABC")>>)
    /\ class_model.kind = "ClassModel"
    /\ class_model.class_type = "ABSTRACT"

\* the constructors of a class: the function definitions named __init__
ConstructorsOf(class) ==
    SelectSeq(class.body, LAMBDA item :
        item.kind = "FunctionDef" /\ item.name = INIT)

\* the attribute a target names when it is an access to one of self
SelfTarget(target) ==
    IF target.kind = "Attribute" /\ target.value = Name("self")
    THEN {target.attr} ELSE {}

RECURSIVE SelfAssigned(_)
\* the names of the attributes of self assigned anywhere in a block: by a
\* plain, augmented or annotated assignment at any depth of the branches of a
\* conditional, the blocks and handlers of a try, a with block, the arms of a
\* match and nested definitions
SelfAssigned(block) ==
    LET InClauses(clauses) ==
            UNION {SelfAssigned(clauses[i].body) : i \in 1..Len(clauses)}
        By(stmt) ==
            CASE stmt.kind = "Assign" ->
                    UNION {SelfTarget(stmt.targets[i]) : i \in 1..Len(stmt.targets)}
              [] stmt.kind \in {"AugAssign", "AnnAssign"} -> SelfTarget(stmt.target)
              [] stmt.kind = "If" ->
                    SelfAssigned(stmt.body) \cup InClauses(stmt.elif_else_clauses)
              [] stmt.kind = "Try" ->
                    SelfAssigned(stmt.body) \cup InClauses(stmt.handlers)
                        \cup SelfAssigned(stmt.orelse) \cup SelfAssigned(stmt.finalbody)
              [] stmt.kind = "Match" -> InClauses(stmt.cases)
              [] stmt.kind \in {"With", "FunctionDef", "ClassDef"} ->
                    SelfAssigned(stmt.body)
              [] OTHER -> {}
    IN  UNION {By(block[i]) : i \in 1..Len(block)}

\* an optional list is absent or holds at least one item
AbsentOrNonEmpty(opt) == opt = None \/ (Len(opt) = 1 /\ opt[1] # <<>>)

\* the functions held by the three lists of functions of a model
FunctionsOf(model) ==
    Range(IF model.methods = None THEN <<>> ELSE model.methods[1])
        \cup Range(IF model.static_methods = None THEN <<>> ELSE model.static_methods[1])
        \cup Range(IF model.abstract_methods = None THEN <<>>
                   ELSE model.abstract_methods[1])

\* class Foo(ABC) whose only member is __init__ assigning self.x
FooOfABC == ClassDef("Foo", Some(<<Name("ABC")>>), <<InitDef(<<Assign(<<SelfX>>)>>)>>)

\* C11: in every model produced, each of attributes, methods, properties,
\* static_methods, abstract_methods and each function's arguments is absent or
\* a non-empty sequence; attributes is absent when the class has no
\* constructor or the constructor assigns no attribute; class Foo(ABC) with
\* only __init__ assigning self.x gives ABSTRACT, attributes [x PUBLIC ""] and
\* no methods.
C11_AbsentNotEmpty ==
    class_model.kind = "ClassModel" =>
        /\ AbsentOrNonEmpty(class_model.attributes)
        /\ AbsentOrNonEmpty(class_model.methods)
        /\ AbsentOrNonEmpty(class_model.properties)
        /\ AbsentOrNonEmpty(class_model.static_methods)
        /\ AbsentOrNonEmpty(class_model.abstract_methods)
        /\ \A function \in FunctionsOf(class_model) :
                AbsentOrNonEmpty(function.arguments)
        /\ (\/ ConstructorsOf(class_def) = <<>>
            \/ SelfAssigned(Head(ConstructorsOf(class_def)).body) = {})
                => class_model.attributes = None
        /\ class_def = FooOfABC =>
                class_model = ClassModel("Foo", Some(<<Variable(<<"x">>, "PUBLIC", "")>>),
                                         None, None, "ABSTRACT", None, None)

\* class Foo(ABC) with only __init__ assigning self.x was modelled
C11_Witness ==
    /\ class_def = FooOfABC
    /\ class_model.kind = "ClassModel"
    /\ class_model.attributes # None /\ class_model.methods = None

\* a constructor that assigns nothing, and a method without parameters, were
\* modelled
NothingToListModelled ==
    /\ class_model.kind = "ClassModel"
    /\ \/ /\ ConstructorsOf(class_def) # <<>>
          /\ Head(ConstructorsOf(class_def)).body = <<Pass>>
          /\ class_model.attributes = None
       \/ \E function \in FunctionsOf(class_model) : function.arguments = None

\* C12: every attribute of self assigned at any depth of the constructor body
\* (in a branch of a conditional, a handler or block of a try, a with block,
\* a match arm, a nested definition) is among the attributes of the model.
C12_NestedAttributes ==
    (class_model.kind = "ClassModel" /\ ConstructorsOf(class_def) # <<>>) =>
        SelfAssigned(Head(ConstructorsOf(class_def)).body)
            \subseteq Range(NamesOf(class_model.attributes))

\* the attributes of self assigned by the statements of a block themselves
AssignedAtTop(block) ==
    UNION {IF block[i].kind \in {"Assign", "AugAssign", "AnnAssign"}
           THEN SelfAssigned(<<block[i]>>) ELSE {} : i \in 1..Len(block)}

\* C13: a constructor is modelled whatever the targets of its assignments
\* are: extraction does not abort, and the attributes assigned by the other
\* statements of the body are in the model.
C13_MalformedSkipped ==
    (/\ class_def.kind = "ClassDef"
     /\ class_model.kind # "none"
     /\ ConstructorsOf(class_def) # <<>>
     /\ ~extract_parent_classes(class_def).panic) =>
        /\ class_model.kind = "ClassModel"
        /\ AssignedAtTop(Head(ConstructorsOf(class_def)).body)
                \subseteq Range(NamesOf(class_model.attributes))

\* the names of the parameters of a function definition in the order
\* positional, positional-only, keyword-only, variadic positional, variadic
\* keyword
ParameterNamesInOrder(function) ==
    LET ps == function.parameters
        names(group) == [i \in 1..Len(group) |-> group[i].name]
    IN  names(ps.args) \o names(ps.posonlyargs) \o names(ps.kwonlyargs)
            \o names(ps.vararg) \o names(ps.kwarg)

\* C14: the arguments of every plain method are one Variable per parameter in
\* the order positional, positional-only, keyword-only, variadic positional,
\* variadic keyword, each group in declaration order.
C14_ArgumentOrder ==
    (class_model.kind = "ClassModel" /\ class_model.methods # None) =>
        LET plain == Filter(function_defs(class_def.body), LAMBDA function :
                        function.name # INIT /\ CategoryOf(function) = "methods")
        IN  \A i \in 1..Len(plain) :
                NamesOf(class_model.methods[1][i].arguments)
                    = ParameterNamesInOrder(plain[i])

----------------------------------------------------------------------------
(* Claims about the dependency graph and the package tree (SpecRun) *)

\* the ordered pairs of nodes the graph stores as edges
EdgeSet(g) ==
    {<<g.id_to_node[e[1]], g.id_to_node[g.edges[e[1]][e[2]]]>> :
        e \in {x \in (DOMAIN g.edges) \X (1..Cardinality(Nodes(g))) :
                    x[2] <= Len(g.edges[x[1]])}}

\* the files scanned so far whose text parsed
ParsedFiles == {f \in DOMAIN file_text : file_text[f].ok}

\* a file's path below the root, as segments
SegmentsBelowRoot(filepath) ==
    LET c == Components(filepath)
    IN  SubSeq(c, Len(Components(ROOT)) + 1, Len(c))

\* the module a scanned file stands for: its stem, and the directory segments
\* of its path below the root (none for a file directly in the root)
FileModule(filepath) ==
    LET segs == SegmentsBelowRoot(filepath)
        file_name == segs[Len(segs)]
    IN  PythonModule(SubSeq(file_name, 1, Len(file_name) - 3),
                     SubSeq(segs, 1, Len(segs) - 1))

\* the node build_dependency_graph adds for a scanned file
BuiltFileModule(filepath) ==
    PythonModule(extract_module_name_from_file_path(filepath).val,
                 extract_packages(ROOT, Components(filepath)).val)

\* the dotted paths a file's text imports
ImportsOf(text) ==
    UNION {IF text.body[i].kind = "Import"
           THEN extract_names_from_import_statement(text.body[i])
           ELSE IF text.body[i].kind = "ImportFrom"
           THEN extract_names_from_import_from_statement(text.body[i])
           ELSE {} : i \in 1..Len(text.body)}

\* segment i of a dotted path is accepted: the directory root/s1/../si exists
\* or the file root/s1/../s(i-1)/si.py does
SegmentAccepted(segs, i) ==
    \/ SubSeq(segs, 1, i) # <<<<>>>>
        /\ Components(ROOT) \o SubSeq(segs, 1, i) \in dirs
    \/ is_file(Components(ROOT) \o SubSeq(segs, 1, i - 1)
                    \o <<segs[i] \o <<".", "p", "y">>>>)

\* the length of the longest accepted prefix of a dotted path
CanonicalLength(import) ==
    LET segs == Split(import, ".")
        ok == {k \in 0..Len(segs) : \A i \in 1..k : SegmentAccepted(segs, i)}
    IN  CHOOSE k \in ok : \A j \in ok : j <= k

\* the import survives resolution: a directory named after its first segment
\* lies directly under the root, and its canonical path is not empty
Survives(import) ==
    /\ Components(ROOT) \o <<Split(import, ".")[1]>> \in dirs
    /\ CanonicalLength(import) >= 1

\* the module of a surviving import: the last segment of its canonical path,
\* in the packages before it
ImportModule(import) ==
    LET k == CanonicalLength(import)
        segs == Split(import, ".")
    IN  PythonModule(segs[k], SubSeq(segs, 1, k - 1))

\* the graph of a finished run is the one the texts read call for, given the
\* node that stands for a file
GraphIsExact(NodeOf(_)) ==
    LET wanted == {<<f, i>> \in ParsedFiles \X
                        UNION {ImportsOf(file_text[f]) : f \in ParsedFiles} :
                      i \in ImportsOf(file_text[f]) /\ Survives(i)}
    IN  /\ Nodes(graph) = {NodeOf(files[k]) : k \in 1..Len(files)}
                            \cup {ImportModule(w[2]) : w \in wanted}
        /\ EdgeSet(graph) = {<<NodeOf(w[1]), ImportModule(w[2])>> : w \in wanted}
        /\ EdgesWellFormed(graph)

\* C7: the graph built holds exactly one node per scanned file (its stem, in
\* its directory segments) and one per distinct surviving import, and exactly
\* one edge from a file's node to the node of each surviving import of that
\* file.
C7_GraphIsExact ==
    (mode = "Dependency" /\ status = "done") => GraphIsExact(FileModule)

\* the same with every file standing for the node the builder made for it,
\* whose packages are [""] for a file directly in the root
GraphIsExactAsBuilt ==
    (mode = "Dependency" /\ status = "done") => GraphIsExact(BuiltFileModule)

\* the path of a node in the package tree: its packages, then its name
NodePath(node) ==
    Append(SelectSeq(node.packages, LAMBDA item : item # <<>>), node.name)

IsProperPrefix(p, q) == Len(p) < Len(q) /\ SubSeq(q, 1, Len(p)) = p

RECURSIVE Leaves(_)
\* the values of the leaves at or below a tree node
Leaves(node) ==
    IF node.children = <<>> THEN {node.value}
    ELSE UNION {Leaves(node.children[i]) : i \in 1..Len(node.children)}

\* the values of the leaves below the root
LeavesBelowRoot(t) == UNION {Leaves(t.children[i]) : i \in 1..Len(t.children)}

RECURSIVE HasPath(_, _)
\* the tree holds a node at the end of the path
HasPath(node, path) ==
    IF path = <<>> THEN TRUE
    ELSE \E i \in 1..Len(node.children) :
            node.children[i].value = Head(path)
                /\ HasPath(node.children[i], Tail(path))

\* C8 as stated: the leaf values of the package tree are exactly the module
\* names of the graph's nodes.
C8_LeavesAreModuleNames ==
    (mode = "Dependency" /\ status = "done") =>
        LeavesBelowRoot(tree) = {n.name : n \in Nodes(graph)}

\* C8 amended: the leaf values are exactly the names of the nodes whose path
\* is not a proper prefix of another node's path, and the path of every node
\* ends at a node of the tree.
C8_LeavesAmended ==
    (mode = "Dependency" /\ status = "done") =>
        /\ LeavesBelowRoot(tree) =
                {n.name : n \in {m \in Nodes(graph) :
                    ~\E o \in Nodes(graph) : IsProperPrefix(NodePath(m), NodePath(o))}}
        /\ \A n \in Nodes(graph) : HasPath(tree, NodePath(n))

\* the tree was built from a graph in which a package is a node next to a
\* module inside it, and from modules in two packages
C8_Witness ==
    /\ mode = "Dependency" /\ status = "done"
    /\ \E m, o \in Nodes(graph) : IsProperPrefix(NodePath(m), NodePath(o))
    /\ Cardinality(LeavesBelowRoot(tree)) >= 2

\* C9: an edge and an import-derived node come only from an import whose first
\* segment names a directory directly under the root and whose canonical path
\* is not empty: every edge leads from a scanned file's node to a node whose
\* path is a non-empty prefix of such an import of that file, every other node
\* is a scanned file's, and no node has an empty name.
C9_ImportsDiscarded ==
    mode = "Dependency" =>
        /\ \A e \in EdgeSet(graph) :
            \E f \in ParsedFiles :
                /\ e[1] = BuiltFileModule(f)
                /\ \E i \in ImportsOf(file_text[f]) :
                    /\ Components(ROOT) \o <<Split(i, ".")[1]>> \in dirs
                    /\ Append(e[2].packages, e[2].name) # <<>>
                    /\ Append(e[2].packages, e[2].name) =
                            SubSeq(Split(i, "."), 1, Len(e[2].packages) + 1)
        /\ \A n \in Nodes(graph) :
            \/ \E f \in DOMAIN file_text : n = BuiltFileModule(f)
            \/ \E e \in EdgeSet(graph) : e[2] = n
        /\ \A n \in Nodes(graph) : n.name # <<>>

\* a file that imports the root-level module file m and a package was
\* scanned: the package became a node, m did not
C9_Witness ==
    /\ mode = "Dependency" /\ status = "done"
    /\ is_file(Components(ROOT) \o <<<<"m", ".", "p", "y">>>>)
    /\ \E f \in ParsedFiles :
        /\ <<"m">> \in ImportsOf(file_text[f])
        /\ <<BuiltFileModule(f), PythonModule(<<"p">>, <<>>)>> \in EdgeSet(graph)
        /\ PythonModule(<<"m">>, <<>>) \notin Nodes(graph)

RECURSIVE ModelsOf(_)
\* the models of the classes of the files that parse, in the order scanned
ModelsOf(fs) ==
    IF fs = <<>> THEN <<>>
    ELSE (IF file_text[Head(fs)].ok
          THEN Map(SelectSeq(file_text[Head(fs)].body,
                             LAMBDA stmt : stmt.kind = "ClassDef"), generate_model)
          ELSE <<>>) \o ModelsOf(Tail(fs))

\* C10: a file whose text does not parse is skipped: it never aborts the run,
\* and the finished run holds the models, nodes and edges of every other file.
C10_ParseFailureNeverFatal ==
    /\ status = "panicked" =>
            ~(file_text[files[next_file]].read /\ ~file_text[files[next_file]].ok)
    /\ (status = "done" /\ mode = "Class") => models = ModelsOf(files)
    /\ (status = "done" /\ mode = "Dependency") =>
            \A f \in ParsedFiles :
                /\ BuiltFileModule(f) \in Nodes(graph)
                /\ \A i \in ImportsOf(file_text[f]) :
                        Survives(i) =>
                            <<BuiltFileModule(f), ImportModule(i)>> \in EdgeSet(graph)

----------------------------------------------------------------------------
(* Claims about import resolution (SpecImport) and insert (SpecTree) *)

\* C15: extract_module_name_from_import returns the longest prefix s1..sk of
\* the import's segments such that each si names the directory root/s1/../si
\* or the file root/s1/../s(i-1)/si.py; the result is a prefix of the import,
\* possibly empty, and a second call on the same import gives the same result.
C15_LongestAcceptedPrefix ==
    LET segs == Split(import_in, ".")
    IN  /\ \A i \in 1..Len(canonical_out) :
            /\ canonical_out[i] = Join(SubSeq(segs, 1, CanonicalLength(import_in)), ".")
            /\ \E k \in 0..Len(segs) : canonical_out[i] = Join(SubSeq(segs, 1, k), ".")
        /\ \A i, j \in 1..Len(canonical_out) : canonical_out[i] = canonical_out[j]

\* p.a.x was resolved twice where p is a directory and p/a.py a file: the
\* result is p.a, a file ending the accepted prefix
C15_Witness ==
    /\ import_in = <<"p", ".", "a", ".", "x">>
    /\ is_dir(Components(ROOT) \o <<<<"p">>>>)
    /\ is_file(Components(ROOT) \o <<<<"p">>, <<"a", ".", "p", "y">>>>)
    /\ canonical_out = <<<<"p", ".", "a">>, <<"p", ".", "a">>>>

RECURSIVE SiblingsUnique(_)
\* no node at or below this one has two children with the same value
SiblingsUnique(node) ==
    /\ \A i, j \in 1..Len(node.children) :
            node.children[i].value = node.children[j].value => i = j
    /\ \A i \in 1..Len(node.children) : SiblingsUnique(node.children[i])

RECURSIVE FirstInserted(_, _, _)
\* the segments that follow a prefix in the paths of a log, each once, in the
\* order of the first path that has it
FirstInserted(log, prefix, seen) ==
    IF log = <<>> THEN seen
    ELSE LET path == Head(log)
             n == Len(prefix)
             follows == Len(path) > n /\ SubSeq(path, 1, n) = prefix
         IN  IF follows /\ ~\E i \in 1..Len(seen) : seen[i] = path[n + 1]
             THEN FirstInserted(Tail(log), prefix, Append(seen, path[n + 1]))
             ELSE FirstInserted(Tail(log), prefix, seen)

RECURSIVE ChildrenInOrder(_, _)
\* the children of the node at a path, and of every node below it, are the
\* segments inserted below that path in order of first insertion
ChildrenInOrder(node, path) ==
    /\ [i \in 1..Len(node.children) |-> node.children[i].value]
            = FirstInserted(inserted, path, <<>>)
    /\ \A i \in 1..Len(node.children) :
            ChildrenInOrder(node.children[i], Append(path, node.children[i].value))

RECURSIVE Extends(_, _)
\* the later tree keeps every child of the earlier one at its position, new
\* children coming after them, at every level
Extends(old, new) ==
    /\ old.value = new.value
    /\ Len(old.children) <= Len(new.children)
    /\ \A i \in 1..Len(old.children) : Extends(old.children[i], new.children[i])

\* an insert kept the children there were and appended what it created
InsertStep == inserted' # inserted => Extends(tree, tree')

\* C16: after any sequence of inserts from a root without children no node
\* has two children of the same value; an insert never removes or reorders
\* children and appends a new child after the existing ones, so children are
\* in order of first insertion.
C16_SiblingsUniqueInOrder ==
    [](SiblingsUnique(tree) /\ ChildrenInOrder(tree, <<>>)) /\ [][InsertStep]_vars

\* p/b, then q, then p/a were inserted: p is before q, and b before a under p
C16_Witness ==
    /\ inserted = <<<<<<"p">>, <<"b">>>>, <<<<"q">>>>, <<<<"p">>, <<"a">>>>>>
    /\ Len(tree.children) = 2
    /\ tree.children[1].value = <<"p">>
    /\ Len(tree.children[1].children) = 2
    /\ tree.children[1].children[1].value = <<"b">>

----------------------------------------------------------------------------
(* Claims about a scanned file's module and the order of the tree (SpecRun) *)

\* the files whose node the builder has added
ScannedFiles == DOMAIN file_text

\* C17: the module of a scanned file has the file's stem as name and exactly
\* the directory segments of its path below the root as packages: none for a
\* file directly in the root, never an empty segment.
C17_FileModulePackages ==
    mode = "Dependency" =>
        /\ \A f \in ScannedFiles : FileModule(f) \in Nodes(graph)
        /\ \A n \in Nodes(graph) :
                \A i \in 1..Len(n.packages) : n.packages[i] # <<>>

\* the nodes of a graph in the order they were added
NodesAsInserted(g) ==
    [i \in 1..Cardinality(Nodes(g)) |-> g.id_to_node[i - 1]]

\* C18: the package tree of a finished run is the one its graph's nodes give
\* when inserted in the order they were added to the graph, whatever order
\* the enumeration of the nodes has.
C18_TreeOrderReproducible ==
    (mode = "Dependency" /\ status = "done") =>
        tree = build_tree_from_dependency_graph(NodesAsInserted(graph))

====
